---- MODULE Spec2Model ----
(***************************************************************************)
(* Model of examples/global_sensitivity_demo.py: the uncertainty           *)
(* assignment (add_exchange_uncertainty), the sensitivity run (run_gsa)    *)
(* and the report (print_top_parameters), as main() chains them.           *)
(*                                                                         *)
(* Numbers.  Exchange amounts are even integers, so that 0.5 * val and     *)
(* 1.5 * val of lines 67-68 are exact (val \div 2 and (3 * val) \div 2).   *)
(* percent is counted in tenths (4 is 0.4); for the list lengths of this   *)
(* model int(len * percent) on IEEE doubles equals (len * tenths) \div 10. *)
(* A Sobol index S1 is counted in tenths as well.                          *)
(*                                                                         *)
(* Two layers of exchange data.  bw.Database / act.exchanges() (line 59)   *)
(* build, at every iteration, fresh Exchange proxies that hold a private   *)
(* copy of the stored row; exc["amount"] = ... (line 71) writes that copy  *)
(* and only Exchange.save() writes the copy back.  Lines 57-71 never call  *)
(* save().  db is the stored database (what any later reader, the          *)
(* evaluator included, gets); exchs are the proxies of line 59.            *)
(***************************************************************************)
EXTENDS Integers, Sequences, FiniteSets, TLC

VARIABLES
    db,          \* the stored exchanges of the database, in iteration order
    percent,     \* argument percent of add_exchange_uncertainty, in tenths
    pc,          \* position of main(): start, loop, gsa, print, done, aborted
    exchs,       \* line 59: the proxies of the eligible exchanges
    n_uncertain, \* line 60
    selected,    \* line 61: the sampled proxies, as indices into exchs
    idx,         \* position of the loop of line 62 in selected
    registry,    \* the parameter registry newFloatParam writes
    err,         \* the exception that ended main(), or "none"
    evaluated,   \* the amounts the evaluator read (run_gsa), <<>> before it
    impact,      \* the number of impacts print_top_parameters has listed
    sobols,      \* lambd.sobols of the impact listed last, in insertion order
    printed,     \* the lines listed for that impact, top first
    run,         \* the number of this execution of the script
    prev         \* what the execution before this one selected

vars == <<db, percent, pc, exchs, n_uncertain, selected, idx, registry, err,
          evaluated, impact, sobols, printed, run, prev>>

(***************************************************************************)
(* Bounds and input domains                                                *)
(***************************************************************************)
MaxRuns == 2

\* amounts an exchange may hold: a negative, a zero and a positive one
Amounts == {-2, 0, 2}

\* percent in (0, 1], in tenths: the demo's 0.4, 0.8 and 1.0
Percents == {4, 8, 10}

\* first-order indices the sensitivity run may report, in tenths
S1Values == {2, 8}

\* the two impact methods build_demo_database returns
NumMethods == 2

(***************************************************************************)
(* The host database                                                       *)
(***************************************************************************)
Num(v) == [kind |-> "num", val |-> v, ref |-> ""]

Ref(name) == [kind |-> "param", val |-> 0, ref |-> name]

\* the places an exchange may take: per foreground activity its production
\* exchange and one exchange to each background activity
AllSlots ==
    << [output |-> "fg1", input |-> "fg1", type |-> "production"],
       [output |-> "fg1", input |-> "bg1", type |-> "technosphere"],
       [output |-> "fg1", input |-> "bg2", type |-> "technosphere"],
       [output |-> "fg2", input |-> "fg2", type |-> "production"],
       [output |-> "fg2", input |-> "bg1", type |-> "technosphere"],
       [output |-> "fg2", input |-> "bg2", type |-> "technosphere"] >>

RECURSIVE Rows(_, _, _)
Rows(present, amt, k) ==
    IF k = 0 THEN <<>>
    ELSE LET rest == Rows(present, amt, k - 1)
         IN  IF k \in present
             THEN Append(rest, [output |-> AllSlots[k].output,
                                input  |-> AllSlots[k].input,
                                type   |-> AllSlots[k].type,
                                amount |-> Num(amt[k])])
             ELSE rest

\* every database over AllSlots: a production exchange holds 2
Databases ==
    { Rows(present, amt, Len(AllSlots)) :
        present \in SUBSET (DOMAIN AllSlots),
        amt \in { a \in [DOMAIN AllSlots -> Amounts \cup {2}] :
                    \A k \in DOMAIN AllSlots :
                        AllSlots[k].type = "production" => a[k] = 2 } }

(***************************************************************************)
(* add_exchange_uncertainty, lines 57-71                                   *)
(***************************************************************************)
\* the filter of line 59 left out
IsEligibleAny(exc) == TRUE

IsEligible(exc) == exc.type # "production"

RECURSIVE Proxies(_, _)
Proxies(d, k) ==
    IF k = 0 THEN <<>>
    ELSE IF IsEligible(d[k])
         THEN Append(Proxies(d, k - 1), [row |-> k, data |-> d[k]])
         ELSE Proxies(d, k - 1)

Exchs(d) == Proxies(d, Len(d))

Max(a, b) == IF a >= b THEN a ELSE b

\* round() in the place of int()
NUncertainRounded(len, pct) == Max(1, (len * pct + 5) \div 10)

NUncertain(len, pct) == Max(1, (len * pct) \div 10)

\* random.choices in the place of random.sample: positions may repeat
SamplesWithReplacement(len, k) == [1..k -> 1..len]

\* random.sample(population, k): the lists it can return, by positions
Samples(len, k) ==
    { s \in [1..k -> 1..len] : \A a, b \in 1..k : a # b => s[a] # s[b] }

ParamName(exc) == "p_" \o exc.input

\* the factors of lines 67 and 68 exchanged
MinOfSwapped(val) == (3 * val) \div 2

MinOf(val) == val \div 2

\* 2 * val in the place of 1.5 * val
MaxOfDoubled(val) == 2 * val

MaxOf(val) == (3 * val) \div 2

ParamDef(name, default, min, max, distrib) ==
    [name |-> name, default |-> default, min |-> min, max |-> max,
     distrib |-> distrib]

\* the exception newFloatParam raises for p on registry reg, or "none"
NewFloatParamError(reg, p) ==
    IF ~(p.min <= p.default /\ p.default <= p.max) THEN "ConfigurationError"
    ELSE IF \E q \in reg : q.name = p.name THEN "DuplicateParameterError"
    ELSE "none"

NewFloatParam(reg, p) == reg \cup {p}

\* the exception swallowed: main() goes on to run_gsa
AfterExceptionSwallowed == "gsa"

\* where main() is after an exception: nothing in lines 57-94 catches one
AfterException == "aborted"

Init ==
    /\ db \in Databases
    /\ percent \in Percents
    /\ pc = "start"
    /\ exchs = <<>>
    /\ n_uncertain = 0
    /\ selected = <<>>
    /\ idx = 1
    /\ registry = {}
    /\ err = "none"
    /\ evaluated = <<>>
    /\ impact = 0
    /\ sobols = <<>>
    /\ printed = <<>>
    /\ run = 1
    /\ prev = [rows |-> {}, n |-> 0]

\* lines 58-61: list the eligible exchanges, size the sample, draw it
Select ==
    /\ pc = "start"
    /\ LET e == Exchs(db)
           n == NUncertain(Len(e), percent)
       IN  /\ exchs' = e
           /\ n_uncertain' = n
           /\ IF n > Len(e)
              THEN /\ err' = "ValueError"
                   /\ pc' = AfterException
                   /\ selected' = selected
              ELSE /\ selected' \in Samples(Len(e), n)
                   /\ pc' = "loop"
                   /\ err' = err
    /\ UNCHANGED <<db, percent, idx, registry, evaluated, impact, sobols,
                   printed, run, prev>>

\* lines 62-71: one turn of the loop
ParamStep ==
    /\ pc = "loop"
    /\ LET exc == exchs[selected[idx]].data
           val == exc.amount.val
           p == ParamDef(ParamName(exc), val, MinOf(val), MaxOf(val), "TRIANGLE")
           e == NewFloatParamError(registry, p)
       IN  IF e # "none"
           THEN /\ err' = e
                /\ pc' = AfterException
                /\ UNCHANGED <<exchs, registry, idx>>
           ELSE /\ registry' = NewFloatParam(registry, p)
                /\ exchs' = [exchs EXCEPT ![selected[idx]].data.amount = Ref(p.name)]
                /\ idx' = idx + 1
                /\ pc' = IF idx = Len(selected) THEN "gsa" ELSE "loop"
                /\ err' = err
    /\ UNCHANGED <<db, percent, n_uncertain, selected, evaluated, impact,
                   sobols, printed, run, prev>>

(***************************************************************************)
(* run_gsa, lines 74-75, and print_top_parameters, lines 78-83             *)
(***************************************************************************)
\* the mappings name -> S1 a simplified model may carry for the parameters
\* of reg, each as the list of its items in insertion order
SobolsOf(reg) ==
    LET names == { p.name : p \in reg }
        n == Cardinality(names)
    IN  { s \in [1..n -> [name : names, s1 : S1Values]] :
            \A a, b \in 1..n : a # b => s[a].name # s[b].name }

\* the sign of the key lost: ascending S1
SortKeyAscending(item) == item.s1

\* key=lambda x: -x[1]
SortKey(item) == 0 - item.s1

\* sorted() is stable: an item goes behind every item whose key is not larger
Insert(item, t) ==
    LET pos == Cardinality({ j \in 1..Len(t) : SortKey(t[j]) <= SortKey(item) })
    IN  SubSeq(t, 1, pos) \o <<item>> \o SubSeq(t, pos + 1, Len(t))

RECURSIVE Sorted(_)
Sorted(s) ==
    IF s = <<>> THEN <<>>
    ELSE Insert(s[Len(s)], Sorted(SubSeq(s, 1, Len(s) - 1)))

\* line 92: the evaluator reads the stored exchanges of the model
RunGsa ==
    /\ pc = "gsa"
    /\ evaluated' = [r \in 1..Len(db) |-> db[r].amount]
    /\ impact' = 0
    /\ pc' = "print"
    /\ UNCHANGED <<db, percent, exchs, n_uncertain, selected, idx, registry,
                   err, sobols, printed, run, prev>>

\* lines 80-83: one turn of the loop over the simplified models
PrintImpact ==
    /\ pc = "print"
    /\ \E s \in SobolsOf(registry) :
          /\ sobols' = s
          /\ printed' = Sorted(s)
    /\ impact' = impact + 1
    /\ pc' = IF impact + 1 = NumMethods THEN "done" ELSE "print"
    /\ UNCHANGED <<db, percent, exchs, n_uncertain, selected, idx, registry,
                   err, evaluated, run, prev>>

\* the rows of db the proxies in selected stand for
SelectedRows == { exchs[selected[j]].row : j \in 1..Len(selected) }

\* lines 96-97: the script is executed again on the same database with the
\* same percent; a new process has an empty registry and fresh proxies
Rerun ==
    /\ pc \in {"done", "aborted"}
    /\ run < MaxRuns
    /\ run' = run + 1
    /\ prev' = [rows |-> SelectedRows, n |-> n_uncertain]
    /\ pc' = "start"
    /\ exchs' = <<>>
    /\ n_uncertain' = 0
    /\ selected' = <<>>
    /\ idx' = 1
    /\ registry' = {}
    /\ err' = "none"
    /\ evaluated' = <<>>
    /\ impact' = 0
    /\ sobols' = <<>>
    /\ printed' = <<>>
    /\ UNCHANGED <<db, percent>>

Next == Select \/ ParamStep \/ RunGsa \/ PrintImpact \/ Rerun

Spec == Init /\ [][Next]_vars

(***************************************************************************)
(* Notions the properties share                                            *)
(***************************************************************************)
\* the selected exchanges whose turn of the loop has completed
Processed == 1..(idx - 1)

\* the stored exchange behind the j-th selected proxy
RowOf(j) == exchs[selected[j]].row

Stored(j) == db[RowOf(j)]

\* add_exchange_uncertainty has returned
Completed == pc \in {"gsa", "print", "done"}

\* the loop stopped at the idx-th selected exchange on an exception
StoppedInLoop == pc = "aborted" /\ idx <= Len(selected)

Names(reg) == { p.name : p \in reg }

Parameterized == { j \in DOMAIN exchs : exchs[j].data.amount.kind = "param" }

(***************************************************************************)
(* C1                                                                      *)
(***************************************************************************)
TruncatedShare(len, pct) ==
    IF (len * pct) \div 10 >= 1 THEN (len * pct) \div 10 ELSE 1

\* round to the nearest integer; no product of this model lies halfway
RoundedShare(len, pct) ==
    IF (len * pct + 5) \div 10 >= 1 THEN (len * pct + 5) \div 10 ELSE 1

\* C1 as stated: over L >= 1 eligible exchanges a completed call has
\* parameterized exactly max(1, round(fraction * L)) of them.
C1_RoundedShareParameterized ==
    (Completed /\ Len(exchs) >= 1) =>
        Cardinality(registry) = RoundedShare(Len(exchs), percent)

\* C1 amended: over L >= 1 eligible exchanges exactly
\* max(1, int(fraction * L)) exchanges are selected, the product truncated
\* and not rounded, and a call that completes has parameterized exactly
\* those; 0.4 over 10 gives 4 and 0.4 over 1 gives 1.
C1_TruncatedShareParameterized ==
    /\ NUncertain(10, 4) = 4
    /\ NUncertain(1, 4) = 1
    /\ (pc # "start" /\ Len(exchs) >= 1) =>
          /\ n_uncertain = TruncatedShare(Len(exchs), percent)
          /\ Len(selected) = n_uncertain
    /\ (Completed /\ Len(exchs) >= 1) =>
          /\ Cardinality(registry) = TruncatedShare(Len(exchs), percent)
          /\ Cardinality(Parameterized) = TruncatedShare(Len(exchs), percent)

\* a completed call over 4 eligible exchanges with 0.4: 1.6 gave 1, not 2
C1_Witness ==
    /\ Completed
    /\ Len(exchs) = 4
    /\ percent = 4
    /\ Cardinality(registry) = 1

(***************************************************************************)
(* C2                                                                      *)
(***************************************************************************)
\* C2: every registered parameter has min <= default <= max; the loop ends
\* with ConfigurationError exactly at a selected exchange whose amount is
\* negative (0.5 * v > v > 1.5 * v), and that exchange yields no parameter:
\* its amount stays a number and its turn is never completed.
C2_BoundsOrderedOrConfigurationError ==
    /\ \A p \in registry : p.min <= p.default /\ p.default <= p.max
    /\ \A j \in Processed : Stored(j).amount.val >= 0
    /\ (StoppedInLoop /\ Stored(idx).amount.val < 0) =>
          err = "ConfigurationError"
    /\ err = "ConfigurationError" =>
          /\ StoppedInLoop
          /\ Stored(idx).amount.val < 0
          /\ exchs[selected[idx]].data.amount.kind = "num"
          /\ Cardinality(registry) = idx - 1

\* a parameter was created, then a negative amount ended the run
C2_Witness ==
    /\ err = "ConfigurationError"
    /\ registry # {}

Spreads == {25, 50}

C7_EvaluatorSeesParameters ==
    pc \in {"print", "done"} =>
        /\ Len(evaluated) = Len(db)
        /\ \A r \in DOMAIN db :
              IF r \in SelectedRows
              THEN evaluated[r] = Ref("p_" \o db[r].input)
              ELSE evaluated[r] = db[r].amount

(***************************************************************************)
(* C8                                                                      *)
(***************************************************************************)
\* C8: no parameter is created with the zero-width range
\* min = default = max = 0.
C8_NoZeroWidthParameter ==
    \A p \in registry : ~(p.min = 0 /\ p.default = 0 /\ p.max = 0)

(***************************************************************************)
(* C9                                                                      *)
(***************************************************************************)
\* parameter names in lexicographic order
NameOrder == <<"p_bg1", "p_bg2", "p_fg1", "p_fg2">>

NameRank(name) == CHOOSE k \in DOMAIN NameOrder : NameOrder[k] = name

PosIn(s, name) == CHOOSE k \in DOMAIN s : s[k].name = name

IsListingOf(t, s) ==
    /\ Len(t) = Len(s)
    /\ \A k \in DOMAIN s : \E m \in DOMAIN t : t[m] = s[k]

\* C9 as stated: the listing descends in S1 and equal S1 are in name order.
C9_TiesByName ==
    \A a, b \in DOMAIN printed :
        a < b =>
            \/ printed[a].s1 > printed[b].s1
            \/ /\ printed[a].s1 = printed[b].s1
               /\ NameRank(printed[a].name) < NameRank(printed[b].name)

\* C9 amended: the listing holds the items of sobols, descends in S1, and
\* equal S1 keep the insertion order of the sobols mapping.
C9_TiesByInsertion ==
    /\ IsListingOf(printed, sobols)
    /\ \A a, b \in DOMAIN printed :
          a < b =>
              \/ printed[a].s1 > printed[b].s1
              \/ /\ printed[a].s1 = printed[b].s1
                 /\ PosIn(sobols, printed[a].name) < PosIn(sobols, printed[b].name)

\* two parameters of equal S1 listed against the name order
C9_Witness ==
    /\ Len(printed) = 2
    /\ printed[1].s1 = printed[2].s1
    /\ printed[1].name = "p_bg2"
    /\ printed[2].name = "p_bg1"

(***************************************************************************)
(* C10                                                                     *)
(***************************************************************************)
\* C10: the sample size asked for never exceeds the number of eligible
\* exchanges, and the sampling never fails.
C10_SampleSizeWithinPopulation ==
    pc # "start" =>
        /\ n_uncertain <= Len(exchs)
        /\ err # "ValueError"

====
